---- MODULE Spec2Model ----
(***************************************************************************)
(* A model of subscrub.py: the decoder cascade (try_decode), the ordered   *)
(* sanitation pipeline (sanitize) and the file glue (process_file).        *)
(*                                                                         *)
(* Text is a sequence of Unicode code points, a byte string a sequence of  *)
(* numbers in 0..255.  Two specifications are given:                       *)
(*   Spec      one call of sanitize on a bounded text, one rule per step,  *)
(*             followed by a second call on the first call's output;       *)
(*   SpecFile  one call of process_file on a bounded file.                 *)
(***************************************************************************)
EXTENDS Integers, Sequences, FiniteSets

VARIABLES
    pc,        \* position in sanitize / process_file
    idx,       \* index of the next entry of the table being looped over
    call,      \* 1: first call of sanitize, 2: the call on its own output
    orig,      \* the text sanitize (or process_file) started from
    text,      \* the local variable text of sanitize
    counts,    \* the change log, in insertion order
    data,      \* process_file: the bytes read from path
    enc,       \* process_file: the label try_decode returned
    path,      \* process_file: its parameters
    in_place,
    backup,
    bom,
    fs,        \* the file system: path -> file
    fs0,       \* the file system process_file started from
    writes,    \* the paths written so far, in order
    ret        \* the value process_file returned, or "none"

vars == <<pc, idx, call, orig, text, counts, data, enc, path, in_place, backup,
          bom, fs, fs0, writes, ret>>

fileVars == <<data, enc, path, in_place, backup, bom, fs, fs0, writes, ret>>

----------------------------------------------------------------------------
(* Bounds of the model *)

MaxLen == 3
MaxBytes == 3

(* The code points the bounded inputs are drawn from: a letter, '.', the  *)
(* space, LF, CR, LINE SEPARATOR, NBSP, ZERO WIDTH SPACE, the marker and  *)
(* the characters of the mojibake of the right single quote and of the   *)
(* ellipsis.                                                               *)
Alphabet == {97, 46, 32, 10, 13, 8232, 160, 8203, 194, 226, 8364, 8482, 166}

(* The bytes the bounded files are drawn from. *)
ByteAlphabet == {97, 32, 194, 160, 129, 239, 187, 191}

RECURSIVE SeqsUpTo(_, _)
SeqsUpTo(S, n) ==
    IF n = 0 THEN {<<>>}
    ELSE LET shorter == SeqsUpTo(S, n - 1)
         IN  shorter \cup {Append(s, c) : s \in shorter, c \in S}

----------------------------------------------------------------------------
(* The rule tables *)

SPACE_SUBS ==
    << [ch |-> 160,  rep |-> <<32>>],
       [ch |-> 8239, rep |-> <<32>>],
       [ch |-> 8199, rep |-> <<32>>],
       [ch |-> 8200, rep |-> <<32>>],
       [ch |-> 8201, rep |-> <<32>>],
       [ch |-> 8202, rep |-> <<32>>] >>

REMOVE_CHARS == <<8203, 8204, 8205, 65279>>

MOJIBAKE_REMAP ==
    << [bad |-> <<226, 8364, 8482>>, good |-> <<39>>],
       [bad |-> <<226, 8364, 732>>,  good |-> <<39>>],
       [bad |-> <<226, 8364, 339>>,  good |-> <<34>>],
       [bad |-> <<226, 8364, 157>>,  good |-> <<34>>],
       [bad |-> <<226, 8364, 8220>>, good |-> <<45>>],
       [bad |-> <<226, 8364, 8221>>, good |-> <<45>>],
       [bad |-> <<226, 8364, 166>>,  good |-> <<46, 46, 46>>] >>

(* The two-character prefix and the characters of the lookahead class of  *)
(* the truncated-quote pattern: ) ] } " ' >> . , ! ? ; :                   *)
TRUNC_PREFIX == <<226, 8364>>
TRUNC_FOLLOW == {41, 93, 125, 34, 39, 187, 46, 44, 33, 63, 59, 58}
TRUNC_REPL == <<34>>

MARKER == 194

(* What \s of re, str.rstrip and str.isspace take for whitespace. *)
WHITESPACE ==
    {9, 10, 11, 12, 13, 28, 29, 30, 31, 32, 133, 160, 5760}
        \cup (8192..8202) \cup {8232, 8233, 8239, 8287, 12288}

(* The characters str.splitlines splits on (CR LF counting as one). *)
LINEBREAKS == {10, 11, 12, 13, 28, 29, 30, 133, 8232, 8233}

IsSpace(c) == c \in WHITESPACE

----------------------------------------------------------------------------
(* String primitives *)

MatchAt(s, sub, i) ==
    /\ i + Len(sub) - 1 <= Len(s)
    /\ SubSeq(s, i, i + Len(sub) - 1) = sub

(* str.count: the non-overlapping occurrences, scanning from the left. *)
RECURSIVE CountFrom(_, _, _)
CountFrom(s, sub, i) ==
    IF i > Len(s) THEN 0
    ELSE IF MatchAt(s, sub, i) THEN 1 + CountFrom(s, sub, i + Len(sub))
    ELSE CountFrom(s, sub, i + 1)

StrCount(s, sub) == CountFrom(s, sub, 1)

(* str.replace: every non-overlapping occurrence, scanning from the left. *)
RECURSIVE ReplaceFrom(_, _, _, _)
ReplaceFrom(s, sub, rep, i) ==
    IF i > Len(s) THEN <<>>
    ELSE IF MatchAt(s, sub, i) THEN rep \o ReplaceFrom(s, sub, rep, i + Len(sub))
    ELSE <<s[i]>> \o ReplaceFrom(s, sub, rep, i + 1)

(* Variant: only the first occurrence is replaced. *)
StrReplaceFirst(s, sub, rep) ==
    LET hits == {i \in 1..Len(s) : MatchAt(s, sub, i)}
    IN  IF hits = {} THEN s
        ELSE LET i == CHOOSE h \in hits : \A k \in hits : h <= k
             IN  SubSeq(s, 1, i - 1) \o rep \o SubSeq(s, i + Len(sub), Len(s))

StrReplace(s, sub, rep) == ReplaceFrom(s, sub, rep, 1)

(* The labels of the change log.  A label records the rule, the trigger   *)
(* and (for the mojibake table) the replacement, as the f-strings do.     *)
Label(kind, bad, good) == [kind |-> kind, bad |-> bad, good |-> good]

Entry(label, n) == [label |-> label, n |-> n]

----------------------------------------------------------------------------
(* The stages of sanitize, each on the pair (text, counts) *)

(* One iteration of the loop over SPACE_SUBS. *)
SpaceSubRule(st, i) ==
    LET ch == SPACE_SUBS[i].ch
        n  == StrCount(st.text, <<ch>>)
    IN  IF n # 0
        THEN [text   |-> StrReplace(st.text, <<ch>>, SPACE_SUBS[i].rep),
              counts |-> Append(st.counts, Entry(Label("replaced", <<ch>>, <<>>), n))]
        ELSE st

(* One iteration of the loop over REMOVE_CHARS. *)
RemoveRule(st, i) ==
    LET ch == REMOVE_CHARS[i]
        n  == StrCount(st.text, <<ch>>)
    IN  IF n # 0
        THEN [text   |-> StrReplace(st.text, <<ch>>, <<>>),
              counts |-> Append(st.counts, Entry(Label("removed", <<ch>>, <<>>), n))]
        ELSE st

(* Variant: the count is taken from the change of length, as the marker  *)
(* rule takes it.                                                          *)
MojibakeRuleLenDelta(st, i) ==
    LET bad   == MOJIBAKE_REMAP[i].bad
        good  == MOJIBAKE_REMAP[i].good
        after == StrReplace(st.text, bad, good)
        n     == Len(st.text) - Len(after)
    IN  IF n # 0
        THEN [text   |-> after,
              counts |-> Append(st.counts, Entry(Label("mojibake", bad, good), n))]
        ELSE [text |-> after, counts |-> st.counts]

(* One iteration of the loop over MOJIBAKE_REMAP. *)
MojibakeRule(st, i) ==
    LET bad  == MOJIBAKE_REMAP[i].bad
        good == MOJIBAKE_REMAP[i].good
        n    == StrCount(st.text, bad)
    IN  IF n # 0
        THEN [text   |-> StrReplace(st.text, bad, good),
              counts |-> Append(st.counts, Entry(Label("mojibake", bad, good), n))]
        ELSE st

(* $ of re without MULTILINE: the end of the text, or just before a       *)
(* newline that ends the text.                                             *)
AtDollar(s, j) == j = Len(s) + 1 \/ (j = Len(s) /\ s[j] = 10)

(* Variant: the lookahead without its $ alternative. *)
TruncLookaheadNoEnd(s, j) ==
    j <= Len(s) /\ (IsSpace(s[j]) \/ s[j] \in TRUNC_FOLLOW)

(* The lookahead (?=$|\s|[)\]\}"'>>.,!?;:]) at position j. *)
TruncLookahead(s, j) ==
    \/ AtDollar(s, j)
    \/ j <= Len(s) /\ (IsSpace(s[j]) \/ s[j] \in TRUNC_FOLLOW)

TruncMatchAt(s, i) ==
    MatchAt(s, TRUNC_PREFIX, i) /\ TruncLookahead(s, i + Len(TRUNC_PREFIX))

(* re.subn of the truncated-quote pattern: the new text and the number of *)
(* replacements made.                                                      *)
RECURSIVE SubnTruncFrom(_, _)
SubnTruncFrom(s, i) ==
    IF i > Len(s) THEN [text |-> <<>>, n |-> 0]
    ELSE IF TruncMatchAt(s, i)
         THEN LET r == SubnTruncFrom(s, i + Len(TRUNC_PREFIX))
              IN  [text |-> TRUNC_REPL \o r.text, n |-> r.n + 1]
         ELSE LET r == SubnTruncFrom(s, i + 1)
              IN  [text |-> <<s[i]>> \o r.text, n |-> r.n]

TruncQuoteStage(st) ==
    LET r == SubnTruncFrom(st.text, 1)
    IN  IF r.n # 0
        THEN [text   |-> r.text,
              counts |-> Append(st.counts,
                                Entry(Label("truncated", TRUNC_PREFIX, TRUNC_REPL), r.n))]
        ELSE st

(* re.sub of Â(?=\s) by the empty string. *)
RECURSIVE SubStrayFrom(_, _)
SubStrayFrom(s, i) ==
    IF i > Len(s) THEN <<>>
    ELSE IF s[i] = MARKER /\ i + 1 <= Len(s) /\ IsSpace(s[i + 1])
         THEN SubStrayFrom(s, i + 1)
         ELSE <<s[i]>> \o SubStrayFrom(s, i + 1)

(* Variant: the pattern consumes the whitespace instead of looking ahead. *)
RECURSIVE SubStrayConsumingFrom(_, _)
SubStrayConsumingFrom(s, i) ==
    IF i > Len(s) THEN <<>>
    ELSE IF s[i] = MARKER /\ i + 1 <= Len(s) /\ IsSpace(s[i + 1])
         THEN SubStrayConsumingFrom(s, i + 2)
         ELSE <<s[i]>> \o SubStrayConsumingFrom(s, i + 1)

StrayMarkerStageConsuming(st) ==
    LET before == st.text
        after  == SubStrayConsumingFrom(before, 1)
        n      == Len(before) - Len(after)
    IN  [text   |-> after,
         counts |-> IF n # 0
                    THEN Append(st.counts, Entry(Label("stray", <<MARKER>>, <<>>), n))
                    ELSE st.counts]

StrayMarkerStage(st) ==
    LET before == st.text
        after  == SubStrayFrom(before, 1)
        n      == Len(before) - Len(after)
    IN  [text   |-> after,
         counts |-> IF n # 0
                    THEN Append(st.counts, Entry(Label("stray", <<MARKER>>, <<>>), n))
                    ELSE st.counts]

(* str.splitlines: the lines without their line endings. *)
LineEnd(s, i) ==
    LET breaks == {j \in i..Len(s) : s[j] \in LINEBREAKS}
    IN  IF breaks = {} THEN Len(s) + 1
        ELSE CHOOSE j \in breaks : \A k \in breaks : j <= k

RECURSIVE SplitFrom(_, _)
SplitFrom(s, i) ==
    IF i > Len(s) THEN <<>>
    ELSE LET eol  == LineEnd(s, i)
             next == IF eol > Len(s) THEN eol
                     ELSE IF s[eol] = 13 /\ eol + 1 <= Len(s) /\ s[eol + 1] = 10
                          THEN eol + 2
                          ELSE eol + 1
         IN  <<SubSeq(s, i, eol - 1)>> \o SplitFrom(s, next)

SplitLines(s) == SplitFrom(s, 1)

(* str.rstrip with no argument. *)
RECURSIVE RStrip(_)
RStrip(ln) ==
    IF ln = <<>> THEN <<>>
    ELSE IF IsSpace(ln[Len(ln)]) THEN RStrip(SubSeq(ln, 1, Len(ln) - 1))
    ELSE ln

(* "\n".join(lines) *)
RECURSIVE JoinLines(_)
JoinLines(lines) ==
    IF lines = <<>> THEN <<>>
    ELSE IF Len(lines) = 1 THEN lines[1]
    ELSE lines[1] \o <<10>> \o JoinLines(Tail(lines))

(* text.endswith(("\n", "\r")) *)
EndsWithNewline(s) == s # <<>> /\ s[Len(s)] \in {10, 13}

(* Variant: the trailing newline is appended unconditionally. *)
NormalizeLinesAlwaysNewline(s) ==
    LET lines == [i \in 1..Len(SplitLines(s)) |-> RStrip(SplitLines(s)[i])]
    IN  JoinLines(lines) \o <<10>>

NormalizeLines(s) ==
    LET lines == [i \in 1..Len(SplitLines(s)) |-> RStrip(SplitLines(s)[i])]
    IN  JoinLines(lines) \o (IF EndsWithNewline(s) THEN <<10>> ELSE <<>>)

LinesStage(st) == [text |-> NormalizeLines(st.text), counts |-> st.counts]

(* sanitize as a whole: the three loops, the two patterns, the lines. *)
RuleOf(table, st, i) ==
    CASE table = "space"    -> SpaceSubRule(st, i)
      [] table = "remove"   -> RemoveRule(st, i)
      [] table = "mojibake" -> MojibakeRule(st, i)

(* A for loop over the entries i..n of a table. *)
RECURSIVE FoldRules(_, _, _, _)
FoldRules(table, st, i, n) ==
    IF i > n THEN st ELSE FoldRules(table, RuleOf(table, st, i), i + 1, n)

sanitize(t) ==
    LET s0 == [text |-> t, counts |-> <<>>]
        s1 == FoldRules("space", s0, 1, Len(SPACE_SUBS))
        s2 == FoldRules("remove", s1, 1, Len(REMOVE_CHARS))
        s3 == FoldRules("mojibake", s2, 1, Len(MOJIBAKE_REMAP))
    IN  LinesStage(StrayMarkerStage(TruncQuoteStage(s3)))

----------------------------------------------------------------------------
(* Spec: sanitize, one rule per step *)

Init ==
    /\ pc = "space"
    /\ idx = 1
    /\ call = 1
    /\ orig \in SeqsUpTo(Alphabet, MaxLen)
    /\ text = orig
    /\ counts = <<>>
    /\ data = <<>>
    /\ enc = "none"
    /\ path = <<>>
    /\ in_place = FALSE
    /\ backup = FALSE
    /\ bom = FALSE
    /\ fs = <<>>
    /\ fs0 = <<>>
    /\ writes = <<>>
    /\ ret = "none"

Cur == [text |-> text, counts |-> counts]

Advance(table, nextpc) ==
    IF idx < Len(table)
    THEN idx' = idx + 1 /\ pc' = pc
    ELSE idx' = 1 /\ pc' = nextpc

SpaceSub ==
    /\ pc = "space"
    /\ text' = SpaceSubRule(Cur, idx).text
    /\ counts' = SpaceSubRule(Cur, idx).counts
    /\ Advance(SPACE_SUBS, "remove")
    /\ UNCHANGED <<call, orig>>
    /\ UNCHANGED fileVars

Remove ==
    /\ pc = "remove"
    /\ text' = RemoveRule(Cur, idx).text
    /\ counts' = RemoveRule(Cur, idx).counts
    /\ Advance(REMOVE_CHARS, "mojibake")
    /\ UNCHANGED <<call, orig>>
    /\ UNCHANGED fileVars

Mojibake ==
    /\ pc = "mojibake"
    /\ text' = MojibakeRule(Cur, idx).text
    /\ counts' = MojibakeRule(Cur, idx).counts
    /\ Advance(MOJIBAKE_REMAP, "trunc")
    /\ UNCHANGED <<call, orig>>
    /\ UNCHANGED fileVars

TruncQuote ==
    /\ pc = "trunc"
    /\ text' = TruncQuoteStage(Cur).text
    /\ counts' = TruncQuoteStage(Cur).counts
    /\ pc' = "stray"
    /\ UNCHANGED <<idx, call, orig>>
    /\ UNCHANGED fileVars

StrayMarker ==
    /\ pc = "stray"
    /\ text' = StrayMarkerStage(Cur).text
    /\ counts' = StrayMarkerStage(Cur).counts
    /\ pc' = "lines"
    /\ UNCHANGED <<idx, call, orig>>
    /\ UNCHANGED fileVars

Lines ==
    /\ pc = "lines"
    /\ text' = LinesStage(Cur).text
    /\ counts' = LinesStage(Cur).counts
    /\ pc' = "done"
    /\ UNCHANGED <<idx, call, orig>>
    /\ UNCHANGED fileVars

(* The caller hands the cleaned text of the first call to sanitize again. *)
SanitizeAgain ==
    /\ pc = "done"
    /\ call = 1
    /\ call' = 2
    /\ orig' = text
    /\ text' = text
    /\ counts' = <<>>
    /\ pc' = "space"
    /\ idx' = 1
    /\ UNCHANGED fileVars

Next ==
    \/ SpaceSub
    \/ Remove
    \/ Mojibake
    \/ TruncQuote
    \/ StrayMarker
    \/ Lines
    \/ SanitizeAgain

Spec == Init /\ [][Next]_vars

----------------------------------------------------------------------------
(* try_decode *)

Ok(t) == [ok |-> TRUE, text |-> t]
Fail == [ok |-> FALSE, text |-> <<>>]

Cons(c, r) == IF r.ok THEN Ok(<<c>> \o r.text) ELSE r

IsCont(b, i) == i <= Len(b) /\ b[i] \in 128..191

(* The number of bytes of the well-formed UTF-8 sequence at i, 0 if the   *)
(* bytes at i are not one (overlong forms, surrogates and values above    *)
(* U+10FFFF are not well-formed).                                          *)
Utf8Width(b, i) ==
    LET b1 == b[i]
    IN  IF b1 < 128 THEN 1
        ELSE IF b1 \in 194..223 THEN (IF IsCont(b, i + 1) THEN 2 ELSE 0)
        ELSE IF b1 \in 224..239
             THEN IF /\ IsCont(b, i + 1)
                     /\ (b1 = 224 => b[i + 1] >= 160)
                     /\ (b1 = 237 => b[i + 1] <= 159)
                     /\ IsCont(b, i + 2)
                  THEN 3 ELSE 0
        ELSE IF b1 \in 240..244
             THEN IF /\ IsCont(b, i + 1)
                     /\ (b1 = 240 => b[i + 1] >= 144)
                     /\ (b1 = 244 => b[i + 1] <= 143)
                     /\ IsCont(b, i + 2)
                     /\ IsCont(b, i + 3)
                  THEN 4 ELSE 0
        ELSE 0

Utf8CodePoint(b, i, w) ==
    CASE w = 1 -> b[i]
      [] w = 2 -> (b[i] - 192) * 64 + (b[i + 1] - 128)
      [] w = 3 -> (b[i] - 224) * 4096 + (b[i + 1] - 128) * 64 + (b[i + 2] - 128)
      [] w = 4 -> (b[i] - 240) * 262144 + (b[i + 1] - 128) * 4096
                     + (b[i + 2] - 128) * 64 + (b[i + 3] - 128)

(* bytes.decode("utf-8"), strict. *)
RECURSIVE Utf8From(_, _)
Utf8From(b, i) ==
    IF i > Len(b) THEN Ok(<<>>)
    ELSE LET w == Utf8Width(b, i)
         IN  IF w = 0 THEN Fail
             ELSE Cons(Utf8CodePoint(b, i, w), Utf8From(b, i + w))

DecodeUtf8(b) == Utf8From(b, 1)

UTF8_BOM == <<239, 187, 191>>

(* bytes.decode("utf-8-sig"): a leading byte-order mark is dropped. *)
DecodeUtf8Sig(b) ==
    IF Len(b) >= 3 /\ SubSeq(b, 1, 3) = UTF8_BOM
    THEN DecodeUtf8(SubSeq(b, 4, Len(b)))
    ELSE DecodeUtf8(b)

(* The code points of the bytes 0x80..0x9F in cp1252, 0 where the byte is *)
(* undefined.                                                              *)
CP1252_HIGH ==
    << 8364, 0, 8218, 402, 8222, 8230, 8224, 8225, 710, 8240, 352, 8249, 338, 0, 381, 0,
       0, 8216, 8217, 8220, 8221, 8226, 8211, 8212, 732, 8482, 353, 8250, 339, 0, 382, 376 >>

Cp1252Char(x) == IF x \in 128..159 THEN CP1252_HIGH[x - 127] ELSE x

(* bytes.decode("cp1252"), strict. *)
DecodeCp1252(b) ==
    IF \E i \in 1..Len(b) : Cp1252Char(b[i]) = 0 /\ b[i] # 0
    THEN Fail
    ELSE Ok([i \in 1..Len(b) |-> Cp1252Char(b[i])])

(* bytes.decode("latin-1"): every byte is its own code point. *)
DecodeLatin1(b) == Ok(b)

(* How many bytes one U+FFFD stands for at an ill-formed position i: the  *)
(* lead byte and the continuation bytes that were still acceptable.       *)
BadWidth(b, i) ==
    LET b1 == b[i]
        second == /\ IsCont(b, i + 1)
                  /\ (b1 = 224 => b[i + 1] >= 160)
                  /\ (b1 = 237 => b[i + 1] <= 159)
                  /\ (b1 = 240 => b[i + 1] >= 144)
                  /\ (b1 = 244 => b[i + 1] <= 143)
    IN  IF b1 \in 224..239 /\ second THEN 2
        ELSE IF b1 \in 240..244 /\ second
             THEN (IF IsCont(b, i + 2) THEN 3 ELSE 2)
        ELSE 1

(* bytes.decode("utf-8", errors="replace") *)
RECURSIVE Utf8ReplaceFrom(_, _)
Utf8ReplaceFrom(b, i) ==
    IF i > Len(b) THEN <<>>
    ELSE LET w == Utf8Width(b, i)
         IN  IF w = 0
             THEN <<65533>> \o Utf8ReplaceFrom(b, i + BadWidth(b, i))
             ELSE <<Utf8CodePoint(b, i, w)>> \o Utf8ReplaceFrom(b, i + w)

DecodeUtf8Replace(b) == Utf8ReplaceFrom(b, 1)

(* Variant: the single-byte code page is tried first. *)
ENCODINGS_LegacyFirst == <<"cp1252", "utf-8-sig", "utf-8", "latin-1">>

ENCODINGS == <<"utf-8-sig", "utf-8", "cp1252", "latin-1">>

StrictDecode(e, b) ==
    CASE e = "utf-8-sig" -> DecodeUtf8Sig(b)
      [] e = "utf-8"     -> DecodeUtf8(b)
      [] e = "cp1252"    -> DecodeCp1252(b)
      [] e = "latin-1"   -> DecodeLatin1(b)

(* The loop of try_decode from the k-th candidate on. *)
RECURSIVE TryFrom(_, _)
TryFrom(b, k) ==
    IF k > Len(ENCODINGS)
    THEN [text |-> DecodeUtf8Replace(b), enc |-> "utf-8(replace)"]
    ELSE LET r == StrictDecode(ENCODINGS[k], b)
         IN  IF r.ok THEN [text |-> r.text, enc |-> ENCODINGS[k]]
             ELSE TryFrom(b, k + 1)

try_decode(b) == TryFrom(b, 1)

----------------------------------------------------------------------------
(* process_file *)

(* str.encode("utf-8") of one code point. *)
Utf8EncodeChar(c) ==
    IF c < 128 THEN <<c>>
    ELSE IF c < 2048 THEN <<192 + (c \div 64), 128 + (c % 64)>>
    ELSE IF c < 65536
         THEN <<224 + (c \div 4096), 128 + ((c \div 64) % 64), 128 + (c % 64)>>
    ELSE <<240 + (c \div 262144), 128 + ((c \div 4096) % 64),
           128 + ((c \div 64) % 64), 128 + (c % 64)>>

RECURSIVE Utf8Encode(_)
Utf8Encode(t) ==
    IF t = <<>> THEN <<>> ELSE Utf8EncodeChar(Head(t)) \o Utf8Encode(Tail(t))

(* cleaned_text.encode("utf-8-sig" if bom else "utf-8") *)
EncodeOutput(t, withBom) == (IF withBom THEN UTF8_BOM ELSE <<>>) \o Utf8Encode(t)

(* A path is its file name cut before each dot: a.clean.srt is            *)
(* <<"a", ".clean", ".srt">>.  Its suffix is the last piece, if any.      *)
Suffix(p) == IF Len(p) > 1 THEN <<p[Len(p)]>> ELSE <<>>

(* Path.with_suffix: the suffix replaced by sfx. *)
WithSuffix(p, sfx) == (IF Len(p) > 1 THEN SubSeq(p, 1, Len(p) - 1) ELSE p) \o sfx

(* path.with_suffix(path.suffix + ".bak") *)
BackupPath(p) == WithSuffix(p, Suffix(p) \o <<".bak">>)

(* path.with_suffix(".clean.srt") *)
CleanPath(p) == WithSuffix(p, <<".clean", ".srt">>)

OutPath == IF in_place THEN path ELSE CleanPath(path)

(* Variant: the change log decides whether the text changed. *)
ChangedByLog == counts # <<>>

Changed == text # orig

(* Variant: the backup receives the cleaned text. *)
BackupBytesCleaned == EncodeOutput(text, bom)

(* What write_bytes puts in the backup: the bytes read from path. *)
BackupBytes == data

NoFile == [exists |-> FALSE, bytes |-> <<>>]
File(b) == [exists |-> TRUE, bytes |-> b]

(* A file some earlier run left behind. *)
StaleFile == File(<<120>>)

InputPaths == {<<"ep", ".srt">>, <<"ep", ".clean", ".srt">>}

AllPaths ==
    InputPaths \cup {BackupPath(p) : p \in InputPaths}
               \cup {CleanPath(p) : p \in InputPaths}

InitFile ==
    /\ pc = "read"
    /\ idx = 1
    /\ call = 1
    /\ orig = <<>>
    /\ text = <<>>
    /\ counts = <<>>
    /\ data = <<>>
    /\ enc = "none"
    /\ path \in InputPaths
    /\ in_place \in BOOLEAN
    /\ backup \in BOOLEAN
    /\ bom \in BOOLEAN
    /\ \E content \in SeqsUpTo(ByteAlphabet, MaxBytes), others \in {NoFile, StaleFile} :
          fs = [q \in AllPaths |-> IF q = path THEN File(content) ELSE others]
    /\ fs0 = fs
    /\ writes = <<>>
    /\ ret = "none"

(* data = path.read_bytes(); original_text, used_enc = try_decode(data) *)
ReadAndDecode ==
    /\ pc = "read"
    /\ data' = fs[path].bytes
    /\ orig' = try_decode(fs[path].bytes).text
    /\ enc' = try_decode(fs[path].bytes).enc
    /\ pc' = "decoded"
    /\ UNCHANGED <<idx, call, text, counts, path, in_place, backup, bom, fs, fs0,
                   writes, ret>>

(* cleaned_text, counts = sanitize(original_text) *)
RunSanitize ==
    /\ pc = "decoded"
    /\ text' = sanitize(orig).text
    /\ counts' = sanitize(orig).counts
    /\ pc' = "compared"
    /\ UNCHANGED <<idx, call, orig>>
    /\ UNCHANGED fileVars

(* if not changed: return False *)
ReturnUnchanged ==
    /\ pc = "compared"
    /\ ~Changed
    /\ ret' = "False"
    /\ pc' = "returned"
    /\ UNCHANGED <<idx, call, orig, text, counts, data, enc, path, in_place, backup,
                   bom, fs, fs0, writes>>

(* if in_place: if backup: write the bytes read to the .bak sibling *)
WriteBackup ==
    /\ pc = "compared"
    /\ Changed
    /\ in_place /\ backup
    /\ fs' = [fs EXCEPT ![BackupPath(path)] = File(BackupBytes)]
    /\ writes' = Append(writes, BackupPath(path))
    /\ pc' = "backed"
    /\ UNCHANGED <<idx, call, orig, text, counts, data, enc, path, in_place, backup,
                   bom, fs0, ret>>

(* out_path.write_bytes(cleaned_text.encode(encoding)); return True *)
WriteOutput ==
    /\ \/ pc = "backed"
       \/ pc = "compared" /\ Changed /\ ~(in_place /\ backup)
    /\ fs' = [fs EXCEPT ![OutPath] = File(EncodeOutput(text, bom))]
    /\ writes' = Append(writes, OutPath)
    /\ ret' = "True"
    /\ pc' = "returned"
    /\ UNCHANGED <<idx, call, orig, text, counts, data, enc, path, in_place, backup,
                   bom, fs0>>

NextFile ==
    \/ ReadAndDecode
    \/ RunSanitize
    \/ ReturnUnchanged
    \/ WriteBackup
    \/ WriteOutput

SpecFile == InitFile /\ [][NextFile]_vars

----------------------------------------------------------------------------
(* Vocabulary of the properties.  Occurrences are counted by position,    *)
(* independently of the left-to-right scans above.                         *)

At(s, i, sub) ==
    /\ i + Len(sub) - 1 <= Len(s)
    /\ \A k \in 1..Len(sub) : s[i + k - 1] = sub[k]

Positions(s, sub) == {i \in 1..Len(s) : At(s, i, sub)}

Contains(s, sub) == Positions(s, sub) # {}

NumOf(s, c) == Cardinality({i \in 1..Len(s) : s[i] = c})

(* s without the characters at the positions P. *)
DropAt(s, P) ==
    LET keep == {i \in 1..Len(s) : i \notin P}
        nth(k) == CHOOSE i \in keep : Cardinality({j \in keep : j <= i}) = k
    IN  [k \in 1..Cardinality(keep) |-> s[nth(k)]]

ExoticSpaces == {SPACE_SUBS[i].ch : i \in 1..Len(SPACE_SUBS)}
Invisibles == {REMOVE_CHARS[i] : i \in 1..Len(REMOVE_CHARS)}
MojibakeKeys == {MOJIBAKE_REMAP[i].bad : i \in 1..Len(MOJIBAKE_REMAP)}

HasExotic(s) == \E i \in 1..Len(s) : s[i] \in ExoticSpaces
HasInvisible(s) == \E i \in 1..Len(s) : s[i] \in Invisibles
HasMojibakeKey(s) == \E k \in MojibakeKeys : Contains(s, k)

(* None of the target characters or sequences of the five rule groups. *)
Clean(s) ==
    /\ ~HasExotic(s)
    /\ ~HasInvisible(s)
    /\ ~HasMojibakeKey(s)
    /\ ~Contains(s, TRUNC_PREFIX)
    /\ NumOf(s, MARKER) = 0

(* Every line ending is a single LF and no line ends in whitespace. *)
LinesNormal(s) ==
    /\ \A i \in 1..Len(s) : s[i] \in LINEBREAKS => s[i] = 10
    /\ \A i \in 1..Len(s) :
          (IsSpace(s[i]) /\ s[i] # 10) => (i < Len(s) /\ s[i + 1] # 10)

HasEntry(log, kind) == \E i \in 1..Len(log) : log[i].label.kind = kind

(* The markers of s that are directly followed by whitespace. *)
StrayPositions(s) ==
    {i \in 1..Len(s) : s[i] = MARKER /\ i < Len(s) /\ s[i + 1] \in WHITESPACE}

(* The prefixes of s that are followed by the end of the text, by         *)
(* whitespace or by a closing/punctuation character.                       *)
TruncPositions(s) ==
    {i \in Positions(s, TRUNC_PREFIX) :
        \/ i + 2 > Len(s)
        \/ s[i + 2] \in WHITESPACE
        \/ s[i + 2] \in TRUNC_FOLLOW}

(* s with each prefix at a position of P replaced by the character q. *)
QuoteAt(s, P, q) ==
    DropAt([i \in 1..Len(s) |-> IF i \in P THEN q ELSE s[i]], {i + 1 : i \in P})

----------------------------------------------------------------------------
(* Properties of sanitize, under Spec *)

(* C1: sanitize is idempotent: the second call, on the cleaned text of    *)
(* the first, returns that text unchanged and an empty change log.        *)
C1_Idempotent ==
    (pc = "done" /\ call = 2) => (text = orig /\ counts = <<>>)

(* C2 as stated: on a text with none of the target characters or          *)
(* sequences sanitize returns the input itself and an empty change log.   *)
C2_NoOpOnClean ==
    (pc = "done" /\ Clean(orig)) => (text = orig /\ counts = <<>>)

(* C2 as amended: on a text with none of the target characters or         *)
(* sequences the change log is empty, and the text comes back identical   *)
(* when moreover its only line ending is LF and no line ends in           *)
(* whitespace (the line stage rewrites the other texts).                  *)
C2_NoOpOnCleanNormalLines ==
    (pc = "done" /\ Clean(orig)) =>
        (counts = <<>> /\ (LinesNormal(orig) => text = orig))

C2_Witness ==
    /\ pc = "done"
    /\ call = 1
    /\ Clean(orig)
    /\ LinesNormal(orig)
    /\ Len(orig) >= 3
    /\ \E i \in 1..Len(orig) : orig[i] = 10
    /\ \E i \in 1..Len(orig) : orig[i] = 32

(* C3: the output ends with a newline exactly when the input ended with   *)
(* a line ending, a line ending being whatever the line split splits on.  *)
C3_TrailingNewline ==
    (pc = "done" /\ call = 1) =>
        ((text # <<>> /\ text[Len(text)] = 10)
            <=> (orig # <<>> /\ orig[Len(orig)] \in LINEBREAKS))

(* C5 as stated, for the input and the output of sanitize: the markers    *)
(* directly followed by a space are gone and their spaces are there, the  *)
(* markers not followed by whitespace are all there, and without a        *)
(* marker followed by whitespace there is no entry of the marker rule.    *)
C5_StrayMarkerOfInput ==
    (pc = "done" /\ call = 1) =>
        LET markers  == {i \in 1..Len(orig) : orig[i] = MARKER}
            spaced   == {i \in markers : i < Len(orig) /\ orig[i + 1] = 32}
            unspaced == {i \in markers : ~(i < Len(orig) /\ IsSpace(orig[i + 1]))}
        IN  /\ NumOf(text, MARKER) >= Cardinality(unspaced)
            /\ NumOf(text, MARKER) <= Cardinality(markers) - Cardinality(spaced)
            /\ NumOf(text, 32) >= Cardinality(spaced)
            /\ (unspaced = markers => ~HasEntry(counts, "stray"))

(* C5 as amended, for the text as it stands when the marker rule runs     *)
(* (after the whitespace, invisible, literal and truncated-quote rules):  *)
(* the rule deletes exactly the markers directly followed by a whitespace *)
(* character and nothing else, so the whitespace stays where it was; it   *)
(* logs an entry exactly when it deleted a marker; and the line stage     *)
(* that follows deletes no marker (it may strip the whitespace).          *)
C5_StrayMarkerOfStage ==
    [][ /\ pc = "stray" =>
              /\ text' = DropAt(text, StrayPositions(text))
              /\ HasEntry(counts', "stray") <=> StrayPositions(text) # {}
        /\ pc = "lines" => NumOf(text', MARKER) = NumOf(text, MARKER) ]_vars

C5_Witness ==
    /\ pc = "lines"
    /\ HasEntry(counts, "stray")
    /\ NumOf(text, MARKER) > 0
    /\ \E i \in 1..Len(text) : IsSpace(text[i])

(* C6 with the replacement character q: the truncated-quote rule          *)
(* replaces exactly the prefixes followed by the end of the text, by      *)
(* whitespace or by a closing character with q, leaves every other        *)
(* character alone, and appends one entry holding the number of           *)
(* replacements exactly when that number is not zero.                     *)
TruncStepWith(q) ==
    pc = "trunc" =>
        LET P == TruncPositions(text)
        IN  /\ text' = QuoteAt(text, P, q)
            /\ counts' = IF P # {}
                         THEN Append(counts,
                                     Entry(Label("truncated", TRUNC_PREFIX, <<q>>),
                                           Cardinality(P)))
                         ELSE counts

(* C6 as stated: the replacement is the right double quotation mark       *)
(* (U+201D).                                                               *)
C6_TruncQuoteRightMark == [][TruncStepWith(8221)]_vars

(* C6 as amended: the replacement is the ASCII quotation mark (U+0022),   *)
(* the rest as stated.                                                     *)
C6_TruncQuoteAscii == [][TruncStepWith(34)]_vars

C6_Witness ==
    /\ pc = "stray"
    /\ HasEntry(counts, "truncated")
    /\ Len(text) >= 2
    /\ text[1] = 34

(* C7: the change log has an entry for a rule exactly when the rule       *)
(* matched, the count is the positive number of occurrences the rule      *)
(* replaced or deleted in the text as it stood when the rule ran, and     *)
(* the entries are in rule order.                                          *)
RuleOrder ==
    [i \in 1..Len(SPACE_SUBS) |-> Label("replaced", <<SPACE_SUBS[i].ch>>, <<>>)]
    \o [i \in 1..Len(REMOVE_CHARS) |-> Label("removed", <<REMOVE_CHARS[i]>>, <<>>)]
    \o [i \in 1..Len(MOJIBAKE_REMAP) |->
            Label("mojibake", MOJIBAKE_REMAP[i].bad, MOJIBAKE_REMAP[i].good)]
    \o <<Label("truncated", TRUNC_PREFIX, <<34>>), Label("stray", <<MARKER>>, <<>>)>>

RuleNumber(label) == CHOOSE k \in 1..Len(RuleOrder) : RuleOrder[k] = label

(* The rule about to run, with the occurrences it has in the text and     *)
(* the change of length one replacement makes.                             *)
RuleAtPc ==
    CASE pc = "space"    -> [k |-> idx,
                             occ |-> NumOf(text, SPACE_SUBS[idx].ch),
                             shrink |-> 0]
      [] pc = "remove"   -> [k |-> Len(SPACE_SUBS) + idx,
                             occ |-> NumOf(text, REMOVE_CHARS[idx]),
                             shrink |-> 1]
      [] pc = "mojibake" -> [k |-> Len(SPACE_SUBS) + Len(REMOVE_CHARS) + idx,
                             occ |-> Cardinality(Positions(text, MOJIBAKE_REMAP[idx].bad)),
                             shrink |-> Len(MOJIBAKE_REMAP[idx].bad)
                                           - Len(MOJIBAKE_REMAP[idx].good)]
      [] pc = "trunc"    -> [k |-> Len(RuleOrder) - 1,
                             occ |-> Cardinality(TruncPositions(text)),
                             shrink |-> 1]
      [] pc = "stray"    -> [k |-> Len(RuleOrder),
                             occ |-> Cardinality(StrayPositions(text)),
                             shrink |-> 1]

C7_ChangeLogAccurate ==
    [][ /\ pc \in {"space", "remove", "mojibake", "trunc", "stray"} =>
              LET r == RuleAtPc
              IN  /\ counts' = IF r.occ > 0
                               THEN Append(counts, Entry(RuleOrder[r.k], r.occ))
                               ELSE counts
                  /\ Len(text') = Len(text) - r.occ * r.shrink
                  /\ \A i \in 1..Len(counts') :
                        /\ counts'[i].n > 0
                        /\ \A j \in 1..Len(counts') :
                              i < j => RuleNumber(counts'[i].label)
                                           < RuleNumber(counts'[j].label)
        /\ pc = "lines" => counts' = counts ]_vars

C7_Witness ==
    /\ pc = "done"
    /\ Len(counts) = 3
    /\ \E i \in 1..Len(counts) : counts[i].n >= 1

(* C10: the cleaned text holds no exotic space, no invisible character    *)
(* and no key of the mojibake table; once a stage has removed its         *)
(* targets no later rule or stage brings one back.                         *)
C10_NoTargetLeft ==
    /\ pc \in {"remove", "mojibake", "trunc", "stray", "lines", "done"}
          => ~HasExotic(text)
    /\ pc \in {"mojibake", "trunc", "stray", "lines", "done"}
          => ~HasInvisible(text)
    /\ pc \in {"trunc", "stray", "lines", "done"}
          => ~HasMojibakeKey(text)

C10_Witness ==
    /\ pc = "done"
    /\ call = 1
    /\ HasExotic(orig)
    /\ HasInvisible(orig)
    /\ HasEntry(counts, "stray")

----------------------------------------------------------------------------
(* Properties of try_decode and process_file, under SpecFile *)

CandidateOrder == <<"utf-8-sig", "utf-8", "cp1252", "latin-1">>

(* C4: try_decode returns the first candidate, in the order utf-8-sig,    *)
(* utf-8, cp1252, latin-1, whose strict decoding of the bytes succeeds,   *)
(* with that decoding; the lossy label only when all four fail.           *)
C4_FirstCandidateWins ==
    pc \in {"decoded", "compared", "backed", "returned"} =>
        LET good == {k \in 1..Len(CandidateOrder) : StrictDecode(CandidateOrder[k], data).ok}
        IN  IF good = {}
            THEN enc = "utf-8(replace)"
            ELSE LET first == CHOOSE k \in good : \A j \in good : k <= j
                 IN  /\ enc = CandidateOrder[first]
                     /\ orig = StrictDecode(CandidateOrder[first], data).text

C4_Witness ==
    /\ pc = "decoded"
    /\ enc = "latin-1"
    /\ Len(data) >= 2
    /\ \E i \in 1..Len(data) : data[i] = 239

(* C8: process_file writes exactly when the cleaned text differs from the *)
(* decoded text: if they are equal it returns False and no file is        *)
(* created or modified; if they differ it returns True with the encoded   *)
(* cleaned text in the output file, whatever the change log holds.        *)
C8_WriteOnlyOnChange ==
    /\ pc \in {"read", "decoded", "compared"} => (fs = fs0 /\ writes = <<>>)
    /\ pc = "returned" =>
          IF text = orig
          THEN ret = "False" /\ fs = fs0 /\ writes = <<>>
          ELSE /\ ret = "True"
               /\ writes # <<>>
               /\ LET out == IF in_place THEN path
                             ELSE SubSeq(path, 1, Len(path) - 1) \o <<".clean", ".srt">>
                  IN  /\ writes[Len(writes)] = out
                      /\ fs[out] = File(EncodeOutput(text, bom))

C8_Witness ==
    /\ pc = "returned"
    /\ ret = "True"
    /\ counts = <<>>
    /\ text # orig

(* C9: with in_place and backup, when the original is overwritten the     *)
(* sibling named by the original name plus .bak already holds the bytes   *)
(* that were read; without in_place neither the original nor a backup is  *)
(* written, the output path being another path than the input's.          *)
C9_BackupBeforeOverwrite ==
    LET bak == path \o <<".bak">>
        pos(q) == {i \in 1..Len(writes) : writes[i] = q}
    IN  /\ (in_place /\ backup) =>
              \A i \in pos(path) :
                 /\ \E j \in pos(bak) : j < i
                 /\ fs[bak] = File(fs0[path].bytes)
        /\ ~in_place =>
              /\ pos(path) = {} /\ pos(bak) = {}
              /\ fs[path] = fs0[path] /\ fs[bak] = fs0[bak]
              /\ LET derived == SubSeq(path, 1, Len(path) - 1) \o <<".clean", ".srt">>
                 IN  derived # path /\ \A i \in 1..Len(writes) : writes[i] = derived

C9_Witness ==
    /\ pc = "returned"
    /\ in_place /\ backup
    /\ writes = <<path \o <<".bak">>, path>>
    /\ fs0[path \o <<".bak">>] = StaleFile
====
